---- MODULE Spec2Model ----
(***************************************************************************)
(* tree_parser: tokenizer, recursive-descent parser, evaluator and infix   *)
(* renderer of src/src/lib.rs.                                             *)
(*                                                                         *)
(* Text is a sequence of one-character strings.  A token (a Rust String)   *)
(* is a sequence of characters too.  The recursion of the parser is kept   *)
(* as an explicit stack of frames, one step per statement that touches     *)
(* the token vector, so that the remaining tokens can be observed at       *)
(* every point of a parse.                                                 *)
(*                                                                         *)
(* f64: a value is a signed exact rational, a signed infinity or NaN.      *)
(* Decimal literals overflow to infinity exactly where Rust's parser       *)
(* does (2^1024 - 2^970 and above).  Rounding of finite results to 53      *)
(* bits is not modelled; no property stated here depends on it.            *)
(***************************************************************************)
EXTENDS Integers, Sequences, FiniteSets, TLC

VARIABLES input, pc, pos, number, tokens, orig, stack, ret, result, value, run, first, trail

vars == <<input, pc, pos, number, tokens, orig, stack, ret, result, value,
          run, first, trail>>

(***************************** bounds **************************************)

\* Longest input text, in characters, of the exhaustive specification.
MaxLen == 4

\* Longest operator chain, in operands, of the chain specification.
MaxChain == 3

\* Longest token sequence T and longest trailing sequence S of the
\* trailing-token specification.
MaxToks == 3

MaxTrail == 2

(***************************** characters **********************************)

Digits == {"0", "1", "2", "3", "4", "5", "6", "7", "8", "9"}

DigitVal(ch) ==
    CASE ch = "0" -> 0 [] ch = "1" -> 1 [] ch = "2" -> 2 [] ch = "3" -> 3
      [] ch = "4" -> 4 [] ch = "5" -> 5 [] ch = "6" -> 6 [] ch = "7" -> 7
      [] ch = "8" -> 8 [] ch = "9" -> 9

DigitChar(d) ==
    CASE d = 0 -> "0" [] d = 1 -> "1" [] d = 2 -> "2" [] d = 3 -> "3"
      [] d = 4 -> "4" [] d = 5 -> "5" [] d = 6 -> "6" [] d = 7 -> "7"
      [] d = 8 -> "8" [] d = 9 -> "9"

\* char::is_whitespace on the characters the inputs are drawn from
IsWhitespace(ch) == ch \in {" ", "\t", "\n", "\r"}

\* char::is_ascii_digit
IsAsciiDigit(ch) == ch \in Digits

(***************************** f64 *****************************************)

Fin(s, n, d) == [k |-> "fin", s |-> s, n |-> n, d |-> d]

Inf(s) == [k |-> "inf", s |-> s, n |-> 0, d |-> 1]

NaN == [k |-> "nan", s |-> 1, n |-> 0, d |-> 1]

\* what evaluate's unreachable!() does: the call panics, no value
Panic == [k |-> "panic", s |-> 1, n |-> 0, d |-> 1]

RECURSIVE Gcd(_, _)
Gcd(a, b) == IF b = 0 THEN a ELSE Gcd(b, a % b)

\* the finite value s * n / d in lowest terms; a zero keeps its sign
Norm(s, n, d) ==
    IF n = 0 THEN Fin(s, 0, 1)
    ELSE LET g == Gcd(n, d) IN Fin(s, n \div g, d \div g)

IsZero(x) == x.k = "fin" /\ x.n = 0

Neg(x) == IF x.k = "nan" THEN x ELSE [x EXCEPT !.s = -@]

FAdd(x, y) ==
    IF x.k = "nan" \/ y.k = "nan" THEN NaN
    ELSE IF x.k = "inf" /\ y.k = "inf"
         THEN IF x.s = y.s THEN x ELSE NaN
    ELSE IF x.k = "inf" THEN x
    ELSE IF y.k = "inf" THEN y
    ELSE IF IsZero(x) /\ IsZero(y)
         THEN Fin(IF x.s = y.s THEN x.s ELSE 1, 0, 1)
    ELSE LET num == x.s * x.n * y.d + y.s * y.n * x.d
         IN  IF num = 0 THEN Fin(1, 0, 1)
             ELSE IF num < 0 THEN Norm(-1, -num, x.d * y.d)
             ELSE Norm(1, num, x.d * y.d)

FSub(x, y) == FAdd(x, Neg(y))

FMul(x, y) ==
    IF x.k = "nan" \/ y.k = "nan" THEN NaN
    ELSE IF x.k = "inf" \/ y.k = "inf"
         THEN IF IsZero(x) \/ IsZero(y) THEN NaN ELSE Inf(x.s * y.s)
    ELSE Norm(x.s * y.s, x.n * y.n, x.d * y.d)

FDiv(x, y) ==
    IF x.k = "nan" \/ y.k = "nan" THEN NaN
    ELSE IF x.k = "inf"
         THEN IF y.k = "inf" THEN NaN ELSE Inf(x.s * y.s)
    ELSE IF y.k = "inf" THEN Fin(x.s * y.s, 0, 1)
    ELSE IF IsZero(y)
         THEN IF IsZero(x) THEN NaN ELSE Inf(x.s * y.s)
    ELSE Norm(x.s * y.s, x.n * y.d, x.d * y.n)

\* Decimal digits of 2^1024 - 2^970, the least decimal integer that
\* str::parse::<f64> rounds to infinity (f64::MAX plus half an ulp, ties
\* to even).
F64Overflow ==
  <<
     1,7,9,7,6,9,3,1,3,4,8,6,2,3,1,5,8,0,7,9,3,7,2,8,9,7,1,4,0,5,
     3,0,3,4,1,5,0,7,9,9,3,4,1,3,2,7,1,0,0,3,7,8,2,6,9,3,6,1,7,3,
     7,7,8,9,8,0,4,4,4,9,6,8,2,9,2,7,6,4,7,5,0,9,4,6,6,4,9,0,1,7,
     9,7,7,5,8,7,2,0,7,0,9,6,3,3,0,2,8,6,4,1,6,6,9,2,8,8,7,9,1,0,
     9,4,6,5,5,5,5,4,7,8,5,1,9,4,0,4,0,2,6,3,0,6,5,7,4,8,8,6,7,1,
     5,0,5,8,2,0,6,8,1,9,0,8,9,0,2,0,0,0,7,0,8,3,8,3,6,7,6,2,7,3,
     8,5,4,8,4,5,8,1,7,7,1,1,5,3,1,7,6,4,4,7,5,7,3,0,2,7,0,0,6,9,
     8,5,5,5,7,1,3,6,6,9,5,9,6,2,2,8,4,2,9,1,4,8,1,9,8,6,0,8,3,4,
     9,3,6,4,7,5,2,9,2,7,1,9,0,7,4,1,6,8,4,4,4,3,6,5,5,1,0,7,0,4,
     3,4,2,7,1,1,5,5,9,6,9,9,5,0,8,0,9,3,0,4,2,8,8,0,1,7,7,9,0,4,
     1,7,4,4,9,7,7,9,2
  >>

\* the digits without their leading zeros (at least one digit is kept)
StripZeros(ds) ==
    LET nz == {i \in 1..Len(ds) : ds[i] # "0"}
    IN  IF nz = {} THEN <<"0">>
        ELSE SubSeq(ds, CHOOSE i \in nz : \A j \in nz : i <= j, Len(ds))

\* ds >= F64Overflow for ds of the same length: no place where ds is the
\* smaller one after an equal prefix
GeqOverflow(ds) ==
    ~\E j \in 1..Len(ds) :
        /\ DigitVal(ds[j]) < F64Overflow[j]
        /\ \A i \in 1..(j - 1) : DigitVal(ds[i]) = F64Overflow[i]

Overflows(ds) ==
    \/ Len(ds) > Len(F64Overflow)
    \/ Len(ds) = Len(F64Overflow) /\ GeqOverflow(ds)

RECURSIVE DigitsValue(_, _)
DigitsValue(ds, acc) ==
    IF ds = <<>> THEN acc
    ELSE DigitsValue(Tail(ds), 10 * acc + DigitVal(Head(ds)))

IsDigitRun(token) ==
    token # <<>> /\ \A i \in 1..Len(token) : IsAsciiDigit(token[i])

\* token.parse::<f64>() on a token of tokenize: a run of ASCII digits is
\* Ok (infinity when it overflows), a single other character is Err.
ParsesAsF64(token) == IsDigitRun(token)

ParseF64(token) ==
    LET ds == StripZeros(token)
    IN  IF Overflows(ds) THEN Inf(1) ELSE Fin(1, DigitsValue(ds, 0), 1)

RECURSIVE NatDigits(_)
NatDigits(n) ==
    IF n < 10 THEN <<DigitChar(n)>>
    ELSE Append(NatDigits(n \div 10), DigitChar(n % 10))

\* format!("{}", n) of an f64 that is an integer, an infinity or NaN (a
\* leaf of a parsed tree is a non-negative integer or +infinity).
FormatF64(x) ==
    CASE x.k = "nan" -> <<"N", "a", "N">>
      [] x.k = "inf" -> (IF x.s < 0 THEN <<"-">> ELSE <<>>) \o <<"i", "n", "f">>
      [] x.k = "fin" /\ x.d = 1 ->
             (IF x.s < 0 THEN <<"-">> ELSE <<>>) \o NatDigits(x.n)

(***************************** Expr ****************************************)

Number(v) == [t |-> "Number", v |-> v]

BinaryOp(op, left, right) ==
    [t |-> "BinaryOp", op |-> op, left |-> left, right |-> right]

RECURSIVE to_infix(_)
to_infix(e) ==
    IF e.t = "Number" THEN FormatF64(e.v)
    ELSE <<"(">> \o to_infix(e.left) \o <<" ", e.op, " ">>
             \o to_infix(e.right) \o <<")">>

\* evaluate's inner match on op
ApplyOp(op, l, r) ==
    CASE op = "+" -> FAdd(l, r)
      [] op = "-" -> FSub(l, r)
      [] op = "*" -> FMul(l, r)
      [] op = "/" -> FDiv(l, r)
      [] OTHER -> Panic

RECURSIVE evaluate(_)
evaluate(e) ==
    IF e.t = "Number" THEN e.v
    ELSE LET l == evaluate(e.left)
             r == evaluate(e.right)
         IN  IF l = Panic \/ r = Panic THEN Panic ELSE ApplyOp(e.op, l, r)

(***************************** ParseError / Result *************************)

UnexpectedEnd == [e |-> "UnexpectedEnd", tok |-> <<>>]

UnexpectedToken(token) == [e |-> "UnexpectedToken", tok |-> token]

MissingClosingParenthesis == [e |-> "MissingClosingParenthesis", tok |-> <<>>]

NoExpr == [t |-> "none"]

\* no call has returned to the frame on top of the stack
NoRet == [ok |-> "none", expr |-> NoExpr, err |-> UnexpectedEnd]

Ok(e) == [ok |-> "ok", expr |-> e, err |-> UnexpectedEnd]

Err(e) == [ok |-> "err", expr |-> NoExpr, err |-> e]

(***************************** parser frames *******************************)

\* the operator sets handed to parse_binary_op
ExprOps == {"+", "-"}

\* TermOps with a symbol evaluate has no arm for
TermOpsUnsupported == {"*", "/", "x"}

TermOps == {"*", "/"}

\* the two operator sets handed to the wrong levels
OpsOfSwapped(fn) == IF fn = "parse_expr" THEN TermOps ELSE ExprOps

OpsOf(fn) == IF fn = "parse_expr" THEN ExprOps ELSE TermOps

\* the subparser handed to parse_binary_op
SubparserOf(fn) == IF fn = "parse_expr" THEN "parse_term" ELSE "parse_factor"

\* A call: fn is the function, at the place it has reached, left and op
\* the locals of parse_binary_op.
Frame(fn, at) == [fn |-> fn, at |-> at, left |-> NoExpr, op |-> ""]

Top == stack[Len(stack)]

Pop == SubSeq(stack, 1, Len(stack) - 1)

SetTop(f) == [stack EXCEPT ![Len(stack)] = f]

\* nothing is removed
RemoveNone(ts) == ts

\* tokens.remove(0) on a non-empty vector
RemoveFirst(ts) == Tail(ts)

\* tokens.first().and_then(|s| s.chars().next()): "" stands for None
Peek(ts) == IF ts # <<>> /\ Head(ts) # <<>> THEN Head(ts)[1] ELSE ""

\* The `?` of lines 164, 168 and 190 and the tail call of line 116 hand an
\* Err unchanged from frame to frame up to parse_expression's caller; no
\* frame touches tokens on the way.
Fail(e) ==
    /\ pc' = "done"
    /\ result' = Err(e)
    /\ stack' = <<>>
    /\ ret' = NoRet

Running == pc = "parsing" /\ stack # <<>>

(***************************** actions *************************************)

\* tokenize, lines 124-126: a whitespace character is skipped; the pending
\* number is left as it is
TokenizeWhitespace ==
    /\ pc = "tokenize" /\ pos <= Len(input)
    /\ IsWhitespace(input[pos])
    /\ pos' = pos + 1
    /\ UNCHANGED <<input, pc, number, tokens, orig, stack, ret, result, value,
                   run, first, trail>>

\* lines 127-128: an ASCII digit is pushed onto the pending number
TokenizeDigit ==
    /\ pc = "tokenize" /\ pos <= Len(input)
    /\ ~IsWhitespace(input[pos]) /\ IsAsciiDigit(input[pos])
    /\ number' = Append(number, input[pos])
    /\ pos' = pos + 1
    /\ UNCHANGED <<input, pc, tokens, orig, stack, ret, result, value,
                   run, first, trail>>

\* lines 129-135: any other character: the pending number, if any, becomes
\* a token, and then the character does
TokenizeSymbol ==
    /\ pc = "tokenize" /\ pos <= Len(input)
    /\ ~IsWhitespace(input[pos]) /\ ~IsAsciiDigit(input[pos])
    /\ tokens' = (IF number # <<>> THEN Append(tokens, number) ELSE tokens)
                     \o << <<input[pos]>> >>
    /\ number' = <<>>
    /\ pos' = pos + 1
    /\ UNCHANGED <<input, pc, orig, stack, ret, result, value, run, first, trail>>

\* lines 138-142 and 115-116: the pending number is flushed, tokenize
\* returns Ok(tokens), and parse_expression calls parse_expr on the vector
TokenizeReturn ==
    /\ pc = "tokenize" /\ pos > Len(input)
    /\ tokens' = (IF number # <<>> THEN Append(tokens, number) ELSE tokens)
    /\ orig' = tokens'
    /\ number' = <<>>
    /\ stack' = <<Frame("parse_expr", "entry")>>
    /\ ret' = NoRet
    /\ pc' = "parsing"
    /\ UNCHANGED <<input, pos, result, value, run, first, trail>>

Tokenizer ==
    TokenizeWhitespace \/ TokenizeDigit \/ TokenizeSymbol \/ TokenizeReturn

\* parse_binary_op, line 164: call the subparser for the first operand
BinaryOpEnter ==
    /\ Running /\ ret = NoRet
    /\ Top.fn \in {"parse_expr", "parse_term"} /\ Top.at = "entry"
    /\ stack' = Append(SetTop([Top EXCEPT !.at = "left"]),
                       Frame(SubparserOf(Top.fn), "entry"))
    /\ UNCHANGED <<input, pc, tokens, orig, ret, result, value, run, first, trail, pos, number>>

\* line 164: let mut left = subparser(tokens)?
BinaryOpLeft ==
    /\ Running /\ ret.ok = "ok"
    /\ Top.fn \in {"parse_expr", "parse_term"} /\ Top.at = "left"
    /\ stack' = SetTop([Top EXCEPT !.at = "loop", !.left = ret.expr])
    /\ ret' = NoRet
    /\ UNCHANGED <<input, pc, tokens, orig, result, value, run, first, trail, pos, number>>

\* lines 165-168: the next token starts with one of ops: remove it and call
\* the subparser for the right operand
BinaryOpTake ==
    /\ Running /\ ret = NoRet
    /\ Top.fn \in {"parse_expr", "parse_term"} /\ Top.at = "loop"
    /\ Peek(tokens) # "" /\ Peek(tokens) \in OpsOf(Top.fn)
    /\ tokens' = RemoveFirst(tokens)
    /\ stack' = Append(SetTop([Top EXCEPT !.at = "right", !.op = Peek(tokens)]),
                       Frame(SubparserOf(Top.fn), "entry"))
    /\ UNCHANGED <<input, pc, orig, ret, result, value, run, first, trail, pos, number>>

\* the fold with its operands the wrong way round
BinaryOpFoldSwapped ==
    /\ Running /\ ret.ok = "ok"
    /\ Top.fn \in {"parse_expr", "parse_term"} /\ Top.at = "right"
    /\ stack' = SetTop([Top EXCEPT !.at = "loop",
                                   !.left = BinaryOp(Top.op, ret.expr, Top.left)])
    /\ ret' = NoRet
    /\ UNCHANGED <<input, pc, tokens, orig, result, value, run, first, trail, pos, number>>

\* lines 168-173: left = BinaryOp { op, left, right }
BinaryOpFold ==
    /\ Running /\ ret.ok = "ok"
    /\ Top.fn \in {"parse_expr", "parse_term"} /\ Top.at = "right"
    /\ stack' = SetTop([Top EXCEPT !.at = "loop",
                                   !.left = BinaryOp(Top.op, Top.left, ret.expr)])
    /\ ret' = NoRet
    /\ UNCHANGED <<input, pc, tokens, orig, result, value, run, first, trail, pos, number>>

\* lines 165, 174-178: no token, or one that starts with no operator of
\* this level: leave the loop and return Ok(left)
BinaryOpReturn ==
    /\ Running /\ ret = NoRet
    /\ Top.fn \in {"parse_expr", "parse_term"} /\ Top.at = "loop"
    /\ ~(Peek(tokens) # "" /\ Peek(tokens) \in OpsOf(Top.fn))
    /\ stack' = Pop
    /\ ret' = Ok(Top.left)
    /\ UNCHANGED <<input, pc, tokens, orig, result, value, run, first, trail, pos, number>>

AtFactor == Running /\ ret = NoRet /\ Top.fn = "parse_factor" /\ Top.at = "entry"

\* parse_factor, lines 183-185
FactorUnexpectedEnd ==
    /\ AtFactor
    /\ tokens = <<>>
    /\ Fail(UnexpectedEnd)
    /\ UNCHANGED <<input, tokens, orig, value, run, first, trail, pos, number>>

\* lines 187-190: "(" is removed and parse_expr called
FactorOpen ==
    /\ AtFactor
    /\ tokens # <<>> /\ Head(tokens) = <<"(">>
    /\ tokens' = RemoveFirst(tokens)
    /\ stack' = Append(SetTop([Top EXCEPT !.at = "paren"]),
                       Frame("parse_expr", "entry"))
    /\ UNCHANGED <<input, pc, orig, ret, result, value, run, first, trail, pos, number>>

\* lines 187, 195-196: the token parses as f64
FactorNumber ==
    /\ AtFactor
    /\ tokens # <<>> /\ Head(tokens) # <<"(">> /\ ParsesAsF64(Head(tokens))
    /\ tokens' = RemoveFirst(tokens)
    /\ stack' = Pop
    /\ ret' = Ok(Number(ParseF64(Head(tokens))))
    /\ UNCHANGED <<input, pc, orig, result, value, run, first, trail, pos, number>>

\* the unexpected token reported as the end of the input
FactorUnexpectedTokenAsEnd ==
    /\ AtFactor
    /\ tokens # <<>> /\ Head(tokens) # <<"(">> /\ ~ParsesAsF64(Head(tokens))
    /\ tokens' = RemoveFirst(tokens)
    /\ Fail(UnexpectedEnd)
    /\ UNCHANGED <<input, orig, value, run, first, trail, pos, number>>

\* lines 187, 197-198
FactorUnexpectedToken ==
    /\ AtFactor
    /\ tokens # <<>> /\ Head(tokens) # <<"(">> /\ ~ParsesAsF64(Head(tokens))
    /\ tokens' = RemoveFirst(tokens)
    /\ Fail(UnexpectedToken(Head(tokens)))
    /\ UNCHANGED <<input, orig, value, run, first, trail, pos, number>>

AtClose == Running /\ ret.ok = "ok" /\ Top.fn = "parse_factor" /\ Top.at = "paren"

\* any token closes the group
ClosesAny(ts) == ts # <<>>

\* line 191 read backwards: a token is left and it is ")"
Closes(ts) == ts # <<>> /\ Head(ts) = <<")">>

\* a group cut off by the end of the input reported as UnexpectedEnd
FactorMissingCloseAsEnd ==
    /\ AtClose
    /\ ~Closes(tokens)
    /\ tokens' = IF tokens = <<>> THEN tokens ELSE RemoveFirst(tokens)
    /\ Fail(IF tokens = <<>> THEN UnexpectedEnd ELSE MissingClosingParenthesis)
    /\ UNCHANGED <<input, orig, value, run, first, trail, pos, number>>

\* lines 191-193: nothing left, or the token removed is not ")"
FactorMissingClose ==
    /\ AtClose
    /\ ~Closes(tokens)
    /\ tokens' = IF tokens = <<>> THEN tokens ELSE RemoveFirst(tokens)
    /\ Fail(MissingClosingParenthesis)
    /\ UNCHANGED <<input, orig, value, run, first, trail, pos, number>>

\* lines 191, 194: ")" is removed and the group's tree returned
FactorClose ==
    /\ AtClose
    /\ Closes(tokens)
    /\ tokens' = RemoveFirst(tokens)
    /\ stack' = Pop
    /\ UNCHANGED <<input, pc, orig, ret, result, value, run, first, trail, pos, number>>

\* tokens left over after the expression are an error
ParseExpressionReturnStrict ==
    /\ pc = "parsing" /\ stack = <<>> /\ ret.ok = "ok"
    /\ pc' = "done"
    /\ result' = IF tokens = <<>> THEN ret ELSE Err(UnexpectedToken(Head(tokens)))
    /\ ret' = NoRet
    /\ UNCHANGED <<input, tokens, orig, stack, value, run, first, trail, pos, number>>

\* line 116: parse_expr's Ok is parse_expression's result
ParseExpressionReturn ==
    /\ pc = "parsing" /\ stack = <<>> /\ ret.ok = "ok"
    /\ pc' = "done"
    /\ result' = ret
    /\ ret' = NoRet
    /\ UNCHANGED <<input, tokens, orig, stack, value, run, first, trail, pos, number>>

\* the caller of main.rs line 54: evaluate the parsed tree
Evaluate ==
    /\ pc = "done" /\ result.ok = "ok"
    /\ value' = evaluate(result.expr)
    /\ pc' = "evaluated"
    /\ UNCHANGED <<input, tokens, orig, stack, ret, result, run, first, trail, pos, number>>

Parser ==
    \/ BinaryOpEnter \/ BinaryOpLeft \/ BinaryOpTake \/ BinaryOpFold
    \/ BinaryOpReturn
    \/ FactorUnexpectedEnd \/ FactorOpen \/ FactorNumber
    \/ FactorUnexpectedToken \/ FactorMissingClose \/ FactorClose
    \/ ParseExpressionReturn

(***************************** inputs **************************************)

\* the characters input texts are drawn from: digits, whitespace, the four
\* operators, parentheses and one character outside the grammar
Alphabet == {"0", "1", " ", "+", "-", "*", "/", "(", ")", "x"}

RECURSIVE SeqsUpTo(_, _)
SeqsUpTo(S, n) ==
    IF n = 0 THEN {<<>>}
    ELSE LET shorter == SeqsUpTo(S, n - 1)
         IN  shorter \cup {Append(s, c) : s \in {t \in shorter : Len(t) = n - 1}, c \in S}

Texts == SeqsUpTo(Alphabet, MaxLen)

\* parse_expression(text) has been called and tokenize entered (lines
\* 115, 121-122)
Fresh(text) ==
    /\ input = text
    /\ pc = "tokenize"
    /\ pos = 1
    /\ number = <<>>
    /\ tokens = <<>>
    /\ orig = <<>>
    /\ stack = <<>>
    /\ ret = NoRet
    /\ result = NoRet
    /\ value = NaN
    /\ run = 1
    /\ first = NoRet
    /\ trail = <<>>

Init == \E text \in Texts : Fresh(text)

Next == Tokenizer \/ Parser \/ Evaluate

Spec == Init /\ [][Next]_vars

(***************************** round trip **********************************)

\* tests.rs test_to_infix, continued as section 8 of the specification
\* states it: the tree of a successful parse is rendered with to_infix
\* and the rendering handed to parse_expression again.
Reparse ==
    /\ pc = "done" /\ run = 1 /\ result.ok = "ok"
    /\ first' = result
    /\ input' = to_infix(result.expr)
    /\ run' = 2
    /\ pc' = "tokenize"
    /\ pos' = 1
    /\ number' = <<>>
    /\ tokens' = <<>>
    /\ orig' = <<>>
    /\ result' = NoRet
    /\ UNCHANGED <<stack, ret, value, trail>>

\* input characters of the grammar only: digits, whitespace, + - * / ( )
GrammarAlphabet == Alphabet \ {"x"}

\* the least decimal literal that parses to infinity
OverflowLiteral == [i \in 1..Len(F64Overflow) |-> DigitChar(F64Overflow[i])]

RoundTexts == SeqsUpTo(GrammarAlphabet, MaxLen) \cup {OverflowLiteral}

InitRound == \E text \in RoundTexts : Fresh(text)

NextRound == Tokenizer \/ Parser \/ Reparse

SpecRound == InitRound /\ [][NextRound]_vars

(***************************** trailing tokens *****************************)

TokAlphabet == {<<"1">>, <<"+">>, <<"*">>, <<"(">>, <<")">>}

Operators == ExprOps \cup TermOps

\* the state in which parse_expr is called on the token vector ts
Called(ts) ==
    /\ input = <<>>
    /\ pc = "parsing"
    /\ pos = 1
    /\ number = <<>>
    /\ tokens = ts
    /\ orig = ts
    /\ stack = <<Frame("parse_expr", "entry")>>
    /\ ret = NoRet
    /\ result = NoRet
    /\ value = NaN
    /\ run = 1
    /\ first = NoRet
    /\ trail = <<>>

\* non-empty token sequences whose first token is none of + - * /
Trails ==
    {s \in SeqsUpTo(TokAlphabet, MaxTrail) : s # <<>> /\ Head(s)[1] \notin Operators}

\* After a successful parse of T, parse_expr is called on T followed by S.
AppendTrailing ==
    /\ pc = "done" /\ run = 1 /\ result.ok = "ok"
    /\ \E s \in Trails :
          /\ trail' = s
          /\ tokens' = orig \o s
          /\ orig' = orig \o s
    /\ first' = result
    /\ run' = 2
    /\ pc' = "parsing"
    /\ stack' = <<Frame("parse_expr", "entry")>>
    /\ ret' = NoRet
    /\ result' = NoRet
    /\ UNCHANGED <<input, value, pos, number>>

InitTrail == \E ts \in SeqsUpTo(TokAlphabet, MaxToks) : Called(ts)

NextTrail == Parser \/ AppendTrailing

SpecTrail == InitTrail /\ [][NextTrail]_vars

(***************************** precedence and chains ***********************)

Additive == {"+", "-"}

Multiplicative == {"*", "/"}

\* number tokens; one has two digits
NumTokens == {<<"2">>, <<"3">>, <<"1", "0">>}

\* what stands where an operand belongs: a number, a character outside the
\* grammar, or nothing
Operands == NumTokens \cup {<<"x">>, <<>>}

\* the lexemes that are not empty, one space between two of them
RECURSIVE Join(_)
Join(ls) ==
    IF ls = <<>> THEN <<>>
    ELSE LET rest == Join(Tail(ls))
         IN  IF Head(ls) = <<>> THEN rest
             ELSE IF rest = <<>> THEN Head(ls)
             ELSE Head(ls) \o <<" ">> \o rest

\* x1 o1 x2 ... xn with every operator in ops and every operand a number
RECURSIVE Chains(_, _)
Chains(ops, n) ==
    IF n = 1 THEN {<<x>> : x \in NumTokens}
    ELSE {c \o << <<o>>, x >> : c \in Chains(ops, n - 1), o \in ops, x \in NumTokens}

ShapeTexts ==
    {Join(<<a, <<p>>, b, <<m>>, c>>) :
        a \in Operands, b \in Operands, c \in Operands,
        p \in Additive, m \in Multiplicative}
    \cup
    {Join(<<a, <<m>>, b, <<p>>, c>>) :
        a \in Operands, b \in Operands, c \in Operands,
        p \in Additive, m \in Multiplicative}
    \cup
    {Join(<< <<"(">>, a, <<p>>, b, cl, <<m>>, c >>) :
        a \in Operands, b \in Operands, c \in Operands,
        p \in Additive, m \in Multiplicative, cl \in {<<")">>, <<>>}}
    \cup
    UNION {{Join(c) : c \in Chains(ops, n)} :
              ops \in {Additive, Multiplicative}, n \in 2..MaxChain}

InitShapes == \E text \in ShapeTexts : Fresh(text)

SpecShapes == InitShapes /\ [][Next]_vars

(***************************** termination *********************************)

\* one character of each class: digit, whitespace, an operator of either
\* level, the parentheses, a character outside the grammar
ClassAlphabet == {"1", " ", "+", "*", "(", ")", "x"}

InitFair == \E text \in SeqsUpTo(ClassAlphabet, MaxLen) : Fresh(text)

\* The program is sequential: a call that can take a step takes it.
FairSpec == InitFair /\ [][Next]_vars /\ WF_vars(Next)

(***************************** properties **********************************)

Last(seq) == seq[Len(seq)]

\* s is what is left of t after removing tokens from its front
IsSuffix(s, t) ==
    Len(s) <= Len(t) /\ s = SubSeq(t, Len(t) - Len(s) + 1, Len(t))

\* t occurs in text as consecutive characters
OccursIn(t, text) ==
    \E j \in 1..(Len(text) - Len(t) + 1) : SubSeq(text, j, j + Len(t) - 1) = t

Finished == pc \in {"done", "evaluated"}

Success(e) ==
    result = [ok |-> "ok", expr |-> e, err |-> [e |-> "UnexpectedEnd", tok |-> <<>>]]

\* r is Err(kind) carrying token
IsFailure(r, kind, token) == r.ok = "err" /\ r.err = [e |-> kind, tok |-> token]

Failure(kind, token) == IsFailure(result, kind, token)

GrammarChars == Digits \cup {" ", "\t", "\n", "\r", "+", "-", "*", "/", "(", ")"}

OutsideGrammar(ch) == ch \notin GrammarChars

OutsideToken(t) == Len(t) = 1 /\ OutsideGrammar(t[1])

OperatorTokens == {<<"+">>, <<"-">>, <<"*">>, <<"/">>}

\* parse_factor has been called and has not looked at the tokens yet
OperandWanted ==
    /\ pc = "parsing" /\ stack # <<>>
    /\ Top.fn = "parse_factor" /\ Top.at = "entry"

\* parse_factor has consumed "(", the group's expression has been parsed,
\* and the closing parenthesis is due
GroupParsed ==
    /\ pc = "parsing" /\ stack # <<>>
    /\ Top.fn = "parse_factor" /\ Top.at = "paren" /\ ret.ok = "ok"

\* parse_binary_op stands at the head of its while loop
AtLoopHead ==
    /\ pc = "parsing" /\ stack # <<>>
    /\ Top.fn \in {"parse_expr", "parse_term"} /\ Top.at = "loop"

Leaf(token) == Number(ParseF64(token))

\* the input text cut at its spaces
RECURSIVE Lexemes(_, _, _)
Lexemes(text, i, cur) ==
    IF i > Len(text) THEN (IF cur = <<>> THEN <<>> ELSE <<cur>>)
    ELSE IF text[i] = " "
         THEN (IF cur = <<>> THEN <<>> ELSE <<cur>>) \o Lexemes(text, i + 1, <<>>)
    ELSE Lexemes(text, i + 1, Append(cur, text[i]))

IsNumLexeme(l) == l # <<>> /\ \A i \in 1..Len(l) : l[i] \in Digits

\* C1: for an input of digits, whitespace, + - * / ( ) that parses to a
\* tree T, parsing T.to_infix() succeeds with a tree of the same structure
\* as T, which evaluates to the same value.
C1_RoundTrip ==
    (run = 2 /\ pc = "done") =>
        /\ result.ok = "ok"
        /\ result.expr = first.expr
        /\ evaluate(result.expr) = evaluate(first.expr)

\* C2: a p b m c parses to BinaryOp(p, a, BinaryOp(m, b, c)), a m b p c to
\* BinaryOp(p, BinaryOp(m, a, b), c), and ( a p b ) m c to
\* BinaryOp(m, BinaryOp(p, a, b), c), for numbers a, b, c, p in {+, -} and
\* m in {*, /}.
C2_Precedence ==
    Finished =>
      LET ls == Lexemes(input, 1, <<>>)
          n == Len(ls)
      IN  /\ (/\ n = 5
              /\ IsNumLexeme(ls[1]) /\ IsNumLexeme(ls[3]) /\ IsNumLexeme(ls[5])
              /\ Len(ls[2]) = 1 /\ ls[2][1] \in Additive
              /\ Len(ls[4]) = 1 /\ ls[4][1] \in Multiplicative)
                => Success(BinaryOp(ls[2][1], Leaf(ls[1]),
                                    BinaryOp(ls[4][1], Leaf(ls[3]), Leaf(ls[5]))))
          /\ (/\ n = 5
              /\ IsNumLexeme(ls[1]) /\ IsNumLexeme(ls[3]) /\ IsNumLexeme(ls[5])
              /\ Len(ls[2]) = 1 /\ ls[2][1] \in Multiplicative
              /\ Len(ls[4]) = 1 /\ ls[4][1] \in Additive)
                => Success(BinaryOp(ls[4][1],
                                    BinaryOp(ls[2][1], Leaf(ls[1]), Leaf(ls[3])),
                                    Leaf(ls[5])))
          /\ (/\ n = 7
              /\ ls[1] = <<"(">> /\ ls[5] = <<")">>
              /\ IsNumLexeme(ls[2]) /\ IsNumLexeme(ls[4]) /\ IsNumLexeme(ls[7])
              /\ Len(ls[3]) = 1 /\ ls[3][1] \in Additive
              /\ Len(ls[6]) = 1 /\ ls[6][1] \in Multiplicative)
                => Success(BinaryOp(ls[6][1],
                                    BinaryOp(ls[3][1], Leaf(ls[2]), Leaf(ls[4])),
                                    Leaf(ls[7])))

C2_Witness ==
    /\ pc = "done"
    /\ input = Join(<< <<"(">>, <<"2">>, <<"-">>, <<"1", "0">>, <<")">>, <<"/">>, <<"3">> >>)
    /\ result.ok = "ok"
    /\ result.expr.op = "/"
    /\ result.expr.left.op = "-"

\* ls, of odd length n >= 3, is numbers joined by operators of ops
IsChain(ls, ops) ==
    /\ Len(ls) >= 3 /\ Len(ls) % 2 = 1
    /\ \A i \in 1..Len(ls) :
          IF i % 2 = 1 THEN IsNumLexeme(ls[i])
          ELSE Len(ls[i]) = 1 /\ ls[i][1] \in ops

\* the left-growing tree of the first n lexemes of a chain
RECURSIVE LeftTree(_, _)
LeftTree(ls, n) ==
    IF n = 1 THEN Leaf(ls[1])
    ELSE BinaryOp(ls[n - 1][1], LeftTree(ls, n - 2), Leaf(ls[n]))

\* C3: a chain x1 o1 x2 ... xn of n >= 2 operands joined by operators of one
\* precedence level parses to the left-growing tree; a - b - c evaluates as
\* (a - b) - c.
C3_LeftAssociative ==
    Finished =>
      LET ls == Lexemes(input, 1, <<>>)
      IN  /\ (IsChain(ls, Additive) \/ IsChain(ls, Multiplicative))
                => Success(LeftTree(ls, Len(ls)))
          /\ (/\ pc = "evaluated"
              /\ IsChain(ls, {"-"}) /\ Len(ls) = 5)
                => value = FSub(FSub(ParseF64(ls[1]), ParseF64(ls[3])),
                                ParseF64(ls[5]))

C3_Witness ==
    /\ pc = "evaluated"
    /\ input = Join(<< <<"1", "0">>, <<"-">>, <<"3">>, <<"-">>, <<"2">> >>)
    /\ value = Fin(1, 5, 1)

\* C4 as stated: an input with a character outside the grammar is rejected
\* with UnexpectedToken, wherever the character stands.
C4_AlwaysRejected ==
    (Finished /\ \E i \in 1..Len(input) : OutsideGrammar(input[i]))
        => (result.ok = "err" /\ result.err.e = "UnexpectedToken")

\* the characters outside the grammar, in order, each as a token
OutsideTokensOf(text) ==
    LET cs == SelectSeq(text, OutsideGrammar)
    IN  [i \in 1..Len(cs) |-> <<cs[i]>>]

\* C4, amended: every character outside the grammar becomes a token of its
\* own, and when parse_factor meets such a token where an operand is
\* required, parse_expression fails with UnexpectedToken of that character.
C4_RejectedAsOperand ==
    /\ [](pc # "tokenize" =>
              SelectSeq(orig, OutsideToken) = OutsideTokensOf(input))
    /\ [][(OperandWanted /\ tokens # <<>> /\ OutsideToken(Head(tokens)))
              => (pc' = "done"
                  /\ IsFailure(result', "UnexpectedToken", Head(tokens)))]_vars

C4_Witness ==
    /\ pc = "done"
    /\ Len(orig) = 3 /\ OutsideToken(orig[3])
    /\ Failure("UnexpectedToken", orig[3])

\* C5: once "(" is consumed and its group parsed, end of input or a token
\* other than ")" makes parse_expression fail with
\* MissingClosingParenthesis, whatever the callers are.
C5_MissingClose ==
    [][(GroupParsed /\ (tokens = <<>> \/ Head(tokens) # <<")">>))
          => (pc' = "done"
              /\ IsFailure(result', "MissingClosingParenthesis", <<>>))]_vars

C5_Witness ==
    /\ pc = "done"
    /\ Failure("MissingClosingParenthesis", <<>>)
    /\ Len(orig) = 3 /\ orig[1] = <<"(">> /\ orig[3] # <<")">>
    /\ tokens = <<>>

\* C6: parse_expression fails with UnexpectedEnd exactly when parse_factor
\* is entered with no token left, which happens only with no token at all,
\* directly after a consumed binary operator, or directly after a consumed
\* "(".
C6_UnexpectedEnd ==
    /\ [][(pc = "parsing" /\ pc' = "done"
              /\ IsFailure(result', "UnexpectedEnd", <<>>))
              <=> (OperandWanted /\ tokens = <<>>)]_vars
    /\ []((OperandWanted /\ tokens = <<>>) =>
              (orig = <<>> \/ Last(orig) \in OperatorTokens \cup {<<"(">>}))
    /\ []((Finished /\ orig = <<>>) => Failure("UnexpectedEnd", <<>>))
    /\ []((Finished /\ Failure("UnexpectedEnd", <<>>)) => tokens = <<>>)

C6_Witness ==
    /\ pc = "done"
    /\ Failure("UnexpectedEnd", <<>>)
    /\ Len(orig) = 2 /\ orig[2] \in OperatorTokens

\* C7: if parse_expr succeeds on T with tree E, it succeeds with the same E
\* on T followed by any S whose first token is none of + - * /, and leaves
\* S unconsumed.
C7_TrailingIgnored ==
    (run = 2 /\ pc = "done") =>
        /\ result.ok = "ok"
        /\ result = first
        /\ IsSuffix(trail, tokens)

C7_Witness ==
    /\ run = 2 /\ pc = "done"
    /\ result.ok = "ok" /\ result.expr.t = "BinaryOp"
    /\ trail = << <<")">>, <<")">> >>
    /\ tokens = trail

RECURSIVE OpsSupported(_)
OpsSupported(e) ==
    \/ e.t = "Number"
    \/ /\ e.t = "BinaryOp"
       /\ e.op \in {"+", "-", "*", "/"}
       /\ OpsSupported(e.left) /\ OpsSupported(e.right)

IsF64(x) == x.k \in {"fin", "inf", "nan"}

\* C8: every BinaryOp of a parsed tree has one of + - * /, so evaluate
\* never reaches unreachable!() and returns a value; a division by zero
\* yields an infinity or NaN.
C8_EvaluateTotal ==
    (Finished /\ result.ok = "ok") =>
        /\ OpsSupported(result.expr)
        /\ IsF64(evaluate(result.expr))
        /\ pc = "evaluated" => value = evaluate(result.expr)
        /\ (/\ result.expr.t = "BinaryOp" /\ result.expr.op = "/"
            /\ evaluate(result.expr.right) \in {Fin(1, 0, 1), Fin(-1, 0, 1)})
              => evaluate(result.expr).k \in {"inf", "nan"}

C8_Witness ==
    /\ pc = "evaluated"
    /\ result.expr.t = "BinaryOp" /\ result.expr.op = "/"
    /\ value = Inf(1)

\* C9: every token is a run of digits that stand next to each other in the
\* input, or a single character that is neither whitespace nor a digit.
C9_TokensContiguous ==
    pc # "tokenize" =>
        \A i \in 1..Len(orig) :
            \/ /\ Len(orig[i]) = 1
               /\ orig[i][1] \notin Digits \cup {" ", "\t", "\n", "\r"}
            \/ /\ IsNumLexeme(orig[i])
               /\ OccursIn(orig[i], input)

\* C10: the remaining tokens are always a suffix of the token sequence and
\* only shrink from the front; entering the body of the operator loop and
\* every parse_factor call on a non-empty sequence remove a token; and
\* parsing ends with a tree or an error.
C10_Terminates ==
    /\ [](pc \in {"parsing", "done", "evaluated"} => IsSuffix(tokens, orig))
    /\ [][pc = "parsing" => IsSuffix(tokens', tokens)]_vars
    /\ [][(AtLoopHead /\ pc' = "parsing" /\ Len(stack') > Len(stack))
              => Len(tokens') < Len(tokens)]_vars
    /\ [][(OperandWanted /\ tokens # <<>>) => Len(tokens') < Len(tokens)]_vars
    /\ <>(pc = "done" /\ result.ok \in {"ok", "err"})

C10_Witness ==
    /\ pc = "done" /\ result.ok = "ok"
    /\ Len(orig) = 3 /\ tokens = <<>>
    /\ result.expr.t = "BinaryOp"

====
